---- MODULE Spec2Model ----
(***************************************************************************)
(* Model of the ecs_domain Ansible module                                  *)
(* (plugins/modules/ecs_domain.py): one run of main(), from argument       *)
(* validation through EcsDomain.__init__, check, request_domain and dump.  *)
(* The ECS API client is the environment: every call either raises         *)
(* RestOperationException or returns, and GetDomain returns an arbitrary   *)
(* record of the bounded set DomainDetails.                                *)
(*                                                                         *)
(* Not modelled: client_id, ov/ev eligibility and day counts (no property  *)
(* below reads them).                                                      *)
(***************************************************************************)
EXTENDS Integers, Sequences, FiniteSets, TLC

\* Number of distinct random values the CA can generate for an artifact.
NumValues == 2

\* range(4) of the inspection loop.
MaxIter == 4

\* Python None / an absent dict key.
None == "None"

DomainName == "ansible.com"

Methods == {"dns", "email", "manual", "web_server"}

Statuses == {"APPROVED", "DECLINED", "CANCELLED", "INITIAL_VERIFICATION",
             "RE_VERIFICATION", "EXPIRED", "EXPIRING"}

\* verification_email parameter: absent or an address.
Emails == {None, "admin@ansible.com"}

Values == {"v" \o ToString(n) : n \in 1..NumValues}

\* str.upper() on the method names
Upper(m) ==
    CASE m = "dns" -> "DNS"
      [] m = "email" -> "EMAIL"
      [] m = "manual" -> "MANUAL"
      [] m = "web_server" -> "WEB_SERVER"
      [] OTHER -> m

\* str.lower() on the method names the API returns
Lower(m) ==
    CASE m = "DNS" -> "dns"
      [] m = "EMAIL" -> "email"
      [] m = "MANUAL" -> "manual"
      [] m = "WEB_SERVER" -> "web_server"
      [] OTHER -> m

ApiMethods == {Upper(m) : m \in Methods}

\* Records GetDomain can return.  dnsMethod / webServerMethod stand for the
\* block's random value (recordValue / fileContents), emailMethod for the
\* e-mail list; None is an absent key.  The CA sends a method's block, if at
\* all, only with a record of that method.
DomainDetails ==
    { d \in [verificationMethod : ApiMethods \cup {None},
             verificationStatus : Statuses,
             dnsMethod : Values \cup {None},
             webServerMethod : Values \cup {None},
             emailMethod : {None, "admin@ansible.com"}] :
        /\ d.dnsMethod # None => d.verificationMethod = "DNS"
        /\ d.webServerMethod # None => d.verificationMethod = "WEB_SERVER"
        /\ d.emailMethod # None => d.verificationMethod = "EMAIL" }

NoDetails ==
    [verificationMethod |-> None, verificationStatus |-> None,
     dnsMethod |-> None, webServerMethod |-> None, emailMethod |-> None]

\* dnsMethod['recordDomain'], dnsMethod['recordType'], webServerMethod['fileLocation']
RecordDomain(v) == "_pki-validation." \o DomainName
RecordType(v) == "TXT"
FileLocation(v) == "http://" \o DomainName \o "/.well-known/pki-validation/" \o v

VARIABLES
    pc,                 \* position in main()
    params,             \* module.params: verification_method, verification_email
    exists,             \* whether the domain exists at the certificate authority
    self,               \* the EcsDomain object's fields
    domain_details,     \* local `domain_details` of check
    satisfied,          \* return value of check
    last_fetched,       \* the record the latest successful GetDomain returned
    result,             \* local `result` of request_domain
    i,                  \* loop variable of the inspection loop
    trace,              \* client construction, API calls and sleeps, in order
    out,                \* what module.exit_json received
    msg                 \* what module.fail_json received

vars == <<pc, params, exists, self, domain_details, satisfied, last_fetched, result, i, trace, out, msg>>

NoBody == [verificationMethod |-> None, emailSource |-> None, email |-> None, domainName |-> None]

Call(op, body, ok) == [op |-> op, body |-> body, secs |-> 0, ok |-> ok, existed |-> exists]
Sleep(n) == [op |-> "sleep", body |-> NoBody, secs |-> n, ok |-> TRUE, existed |-> exists]

\* EcsDomain.__init__, the field assignments
NewDomain ==
    [changed |-> FALSE, domain_status |-> None, verification_method |-> None,
     file_location |-> None, file_contents |-> None,
     dns_location |-> None, dns_contents |-> None, dns_resource_type |-> None,
     emails |-> None]

Init ==
    /\ pc = "main"
    /\ params \in [verification_method : Methods, verification_email : Emails]
    /\ exists \in BOOLEAN
    /\ self = NewDomain
    /\ domain_details = NoDetails
    /\ satisfied = FALSE
    /\ last_fetched = NoDetails
    /\ result = NoDetails
    /\ i = 0
    /\ trace = <<>>
    /\ out = <<>>
    /\ msg = None

\* module.fail_json: report msg and exit
Fail(m) ==
    /\ pc' = "failed"
    /\ msg' = m

\* EcsDomain.set_domain_details
set_domain_details(s, d) ==
    LET vm == IF d.verificationMethod # None
              THEN Lower(d.verificationMethod)
              ELSE s.verification_method
        s1 == [s EXCEPT !.verification_method = vm,
                        !.domain_status = d.verificationStatus]
    IN  IF vm = "dns" /\ d.dnsMethod # None
        THEN [s1 EXCEPT !.dns_location = RecordDomain(d.dnsMethod),
                        !.dns_resource_type = RecordType(d.dnsMethod),
                        !.dns_contents = d.dnsMethod]
        ELSE IF vm = "web_server" /\ d.webServerMethod # None
        THEN [s1 EXCEPT !.file_location = FileLocation(d.webServerMethod),
                        !.file_contents = d.webServerMethod]
        ELSE IF vm = "email" /\ d.emailMethod # None
        THEN [s1 EXCEPT !.emails = d.emailMethod]
        ELSE s1

\* check with APPROVED missing from the accepted statuses
check_noapproved(s, method) ==
    IF /\ s.domain_status # "INITIAL_VERIFICATION"
       /\ s.domain_status # "RE_VERIFICATION"
    THEN FALSE
    ELSE IF /\ s.domain_status \in {"INITIAL_VERIFICATION", "RE_VERIFICATION"}
            /\ s.verification_method # method
    THEN FALSE
    ELSE TRUE

\* check with EXPIRING among the accepted statuses
check_expiring(s, method) ==
    IF /\ s.domain_status # "APPROVED"
       /\ s.domain_status # "INITIAL_VERIFICATION"
       /\ s.domain_status # "RE_VERIFICATION"
       /\ s.domain_status # "EXPIRING"
    THEN FALSE
    ELSE IF /\ s.domain_status \in {"INITIAL_VERIFICATION", "RE_VERIFICATION"}
            /\ s.verification_method # method
    THEN FALSE
    ELSE TRUE

\* EcsDomain.check, the decision after set_domain_details
check(s, method) ==
    IF /\ s.domain_status # "APPROVED"
       /\ s.domain_status # "INITIAL_VERIFICATION"
       /\ s.domain_status # "RE_VERIFICATION"
    THEN FALSE
    ELSE IF /\ s.domain_status \in {"INITIAL_VERIFICATION", "RE_VERIFICATION"}
            /\ s.verification_method # method
    THEN FALSE
    ELSE IF s.domain_status = "EXPIRING"
    THEN FALSE
    ELSE TRUE

\* the request body without .upper() on the method
RequestBody_lower(s, p) ==
    [verificationMethod |-> p.verification_method,
     emailSource |-> IF p.verification_method = "email"
                     THEN IF p.verification_email # None THEN "SPECIFIED" ELSE "INCLUDE_WHOIS"
                     ELSE None,
     email |-> IF p.verification_method = "email" /\ p.verification_email # None
               THEN p.verification_email ELSE None,
     domainName |-> IF s.domain_status = None THEN DomainName ELSE None]

\* request_domain, the request body
RequestBody(s, p) ==
    [verificationMethod |-> Upper(p.verification_method),
     emailSource |-> IF p.verification_method = "email"
                     THEN IF p.verification_email # None THEN "SPECIFIED" ELSE "INCLUDE_WHOIS"
                     ELSE None,
     email |-> IF p.verification_method = "email" /\ p.verification_email # None
               THEN p.verification_email ELSE None,
     domainName |-> IF s.domain_status = None THEN DomainName ELSE None]

\* request_domain, which call carries the request
RequestOp(s) == IF s.domain_status = None THEN "AddDomain" ELSE "ReverifyDomain"

\* request_domain, the break condition of the inspection loop
ValuesChanged(r, s, method) ==
    IF method = "dns"
    THEN r.dnsMethod # None /\ r.dnsMethod # s.dns_contents
    ELSE IF method = "web_server"
    THEN r.webServerMethod # None /\ r.webServerMethod # s.file_contents
    ELSE FALSE

\* EcsDomain.dump: the result as a function from its keys
dump(s) ==
    LET keys == {"changed", "domain_status"}
                \cup (IF s.verification_method # None THEN {"verification_method"} ELSE {})
                \cup (IF s.emails # None THEN {"emails"} ELSE {})
                \cup (IF s.verification_method = "dns"
                      THEN {"dns_location", "dns_contents", "dns_resource_type"}
                      ELSE IF s.verification_method = "web_server"
                      THEN {"file_location", "file_contents"}
                      ELSE IF s.verification_method = "email"
                      THEN {"emails"}
                      ELSE {})
    IN  [k \in keys |-> IF k = "changed" THEN IF s.changed THEN "true" ELSE "false" ELSE s[k]]

\* main without the verification_email test
Validate_skip ==
    /\ pc = "main"
    /\ pc' = "init"
    /\ UNCHANGED <<params, exists, self, satisfied, result, i, trace, out, msg, domain_details, last_fetched>>

\* main: verification_email is only valid with verification_method=email
Validate ==
    /\ pc = "main"
    /\ IF params.verification_email # None /\ params.verification_method # "email"
       THEN Fail("The verification_email field is invalid")
       ELSE pc' = "init" /\ UNCHANGED msg
    /\ UNCHANGED <<params, exists, self, satisfied, result, i, trace, out, domain_details, last_fetched>>

\* EcsDomain.__init__: construct the ECS client
NewClient ==
    /\ pc = "init"
    /\ self' = NewDomain
    /\ \E ok \in BOOLEAN :
        /\ trace' = Append(trace, Call("ECSClient", NoBody, ok))
        /\ IF ok THEN pc' = "version" /\ UNCHANGED msg
                 ELSE Fail("Failed to initialize Entrust Provider")
    /\ UNCHANGED <<params, exists, satisfied, result, i, out, domain_details, last_fetched>>

\* EcsDomain.__init__: no-op connection test
GetAppVersion ==
    /\ pc = "version"
    /\ \E ok \in BOOLEAN :
        /\ trace' = Append(trace, Call("GetAppVersion", NoBody, ok))
        /\ IF ok THEN pc' = "check" /\ UNCHANGED msg
                 ELSE Fail("Please verify credential information")
    /\ UNCHANGED <<params, exists, self, satisfied, result, i, out, domain_details, last_fetched>>

\* EcsDomain.check, called from request_domain
Check ==
    /\ pc = "check"
    /\ \/ \E d \in DomainDetails :
            /\ exists
            /\ trace' = Append(trace, Call("GetDomain", NoBody, TRUE))
            /\ domain_details' = d
            /\ last_fetched' = d
            /\ self' = set_domain_details(self, d)
            /\ satisfied' = check(self', params.verification_method)
       \/ /\ trace' = Append(trace, Call("GetDomain", NoBody, FALSE))
          /\ satisfied' = FALSE
          /\ UNCHANGED <<self, domain_details, last_fetched>>
    /\ pc' = IF satisfied' THEN "dump" ELSE "request"
    /\ UNCHANGED <<params, exists, result, i, out, msg>>

\* request_domain: AddDomain or ReverifyDomain
Request ==
    /\ pc = "request"
    /\ \E ok \in BOOLEAN :
        /\ trace' = Append(trace, Call(RequestOp(self), RequestBody(self, params), ok))
        /\ exists' = IF ok /\ RequestOp(self) = "AddDomain" THEN TRUE ELSE exists
        /\ IF ok THEN pc' = "sleep5" /\ UNCHANGED msg
                 ELSE Fail("Failed to request domain validation from Entrust (ECS)")
    /\ UNCHANGED <<params, self, satisfied, result, i, out, domain_details, last_fetched>>

\* request_domain: time.sleep(5)
Sleep5 ==
    /\ pc = "sleep5"
    /\ trace' = Append(trace, Sleep(5))
    /\ pc' = "get1"
    /\ UNCHANGED <<params, exists, self, satisfied, result, i, out, msg, domain_details, last_fetched>>

\* the first poll with its GetDomain outside the try block's reach: an error is ignored
Get1_swallow ==
    /\ pc = "get1"
    /\ \/ \E d \in DomainDetails :
            /\ exists
            /\ trace' = Append(trace, Call("GetDomain", NoBody, TRUE))
            /\ result' = d
            /\ last_fetched' = d
       \/ /\ trace' = Append(trace, Call("GetDomain", NoBody, FALSE))
          /\ UNCHANGED <<result, last_fetched>>
    /\ pc' = IF params.verification_method \in {"dns", "web_server"}
             THEN "loop" ELSE "finish"
    /\ i' = 0
    /\ UNCHANGED <<params, exists, self, satisfied, out, msg, domain_details>>

\* request_domain: first GetDomain after the request
Get1 ==
    /\ pc = "get1"
    /\ \/ \E d \in DomainDetails :
            /\ exists
            /\ trace' = Append(trace, Call("GetDomain", NoBody, TRUE))
            /\ result' = d
            /\ last_fetched' = d
            /\ pc' = IF params.verification_method \in {"dns", "web_server"}
                     THEN "loop" ELSE "finish"
            /\ UNCHANGED msg
       \/ /\ trace' = Append(trace, Call("GetDomain", NoBody, FALSE))
          /\ Fail("Failed to request domain validation from Entrust (ECS)")
          /\ UNCHANGED <<result, last_fetched>>
    /\ i' = 0
    /\ UNCHANGED <<params, exists, self, satisfied, out, domain_details>>

\* the inspection loop returning early once changed values are seen
LoopIter_exit ==
    /\ pc = "loop"
    /\ IF i < MaxIter
       THEN IF ValuesChanged(result, self, params.verification_method)
            THEN pc' = "finish" /\ UNCHANGED i
            ELSE i' = i + 1 /\ UNCHANGED pc
       ELSE pc' = "sleep10" /\ UNCHANGED i
    /\ UNCHANGED <<params, exists, self, satisfied, result, trace, out, msg, domain_details, last_fetched>>

\* request_domain: one iteration of `for i in range(4)`
LoopIter ==
    /\ pc = "loop"
    /\ IF i < MaxIter
       THEN IF ValuesChanged(result, self, params.verification_method)
            THEN pc' = "sleep10" /\ UNCHANGED i
            ELSE i' = i + 1 /\ UNCHANGED pc
       ELSE pc' = "sleep10" /\ UNCHANGED i
    /\ UNCHANGED <<params, exists, self, satisfied, result, trace, out, msg, domain_details, last_fetched>>

\* request_domain: time.sleep(10)
Sleep10 ==
    /\ pc = "sleep10"
    /\ trace' = Append(trace, Sleep(10))
    /\ pc' = "get2"
    /\ UNCHANGED <<params, exists, self, satisfied, result, i, out, msg, domain_details, last_fetched>>

\* request_domain: second GetDomain after the request
Get2 ==
    /\ pc = "get2"
    /\ \/ \E d \in DomainDetails :
            /\ exists
            /\ trace' = Append(trace, Call("GetDomain", NoBody, TRUE))
            /\ result' = d
            /\ last_fetched' = d
            /\ pc' = "finish"
            /\ UNCHANGED msg
       \/ /\ trace' = Append(trace, Call("GetDomain", NoBody, FALSE))
          /\ Fail("Failed to request domain validation from Entrust (ECS)")
          /\ UNCHANGED <<result, last_fetched>>
    /\ UNCHANGED <<params, exists, self, satisfied, i, out, domain_details>>

\* the end of request_domain without self.changed = True
Finish_unchanged ==
    /\ pc = "finish"
    /\ self' = set_domain_details(self, result)
    /\ pc' = "dump"
    /\ UNCHANGED <<params, exists, satisfied, result, i, trace, out, msg, domain_details, last_fetched>>

\* request_domain: self.changed = True; self.set_domain_details(result)
Finish ==
    /\ pc = "finish"
    /\ self' = set_domain_details([self EXCEPT !.changed = TRUE], result)
    /\ pc' = "dump"
    /\ UNCHANGED <<params, exists, satisfied, result, i, trace, out, msg, domain_details, last_fetched>>

\* main: result = domain.dump(); module.exit_json(**result)
Dump ==
    /\ pc = "dump"
    /\ out' = dump(self)
    /\ pc' = "done"
    /\ UNCHANGED <<params, exists, self, satisfied, result, i, trace, msg, domain_details, last_fetched>>

Next ==
    \/ Validate
    \/ NewClient
    \/ GetAppVersion
    \/ Check
    \/ Request
    \/ Sleep5
    \/ Get1
    \/ LoopIter
    \/ Sleep10
    \/ Get2
    \/ Finish
    \/ Dump

Spec == Init /\ [][Next]_vars

\* The run is sequential and blocking: a step that can be taken is taken.
FairSpec == Spec /\ WF_vars(Next)

TypeOK ==
    /\ pc \in {"main", "init", "version", "check", "request", "sleep5", "get1",
               "loop", "sleep10", "get2", "finish", "dump", "done", "failed"}
    /\ i \in 0..MaxIter
    /\ exists \in BOOLEAN

----------------------------------------------------------------------------
\* Helpers for the properties

CallsOf(ops) == {k \in DOMAIN trace : trace[k].op \in ops}

Mutating == {"AddDomain", "ReverifyDomain"}

\* check has made its GetDomain call
CheckDone == CallsOf({"GetDomain"}) # {}

\* the initial GetDomain returned a record
LookupOk == domain_details # NoDetails

\* the initial GetDomain raised RestOperationException
LookupFailed == CheckDone /\ ~LookupOk

\* the method of the record the initial GetDomain returned, as the module names it
CurrentMethod == Lower(domain_details.verificationMethod)

\* position in trace of the add/reverify call, 0 if none was made
RequestAt == IF CallsOf(Mutating) = {} THEN 0 ELSE CHOOSE k \in CallsOf(Mutating) : TRUE

\* what the run did after the add/reverify call
AfterRequest ==
    IF RequestAt = 0 THEN <<>> ELSE SubSeq(trace, RequestAt + 1, Len(trace))

ArtifactKeys == {"dns_location", "dns_contents", "dns_resource_type",
                 "file_location", "file_contents", "emails"}

ArtifactKeysOf(m) ==
    CASE m = "dns" -> {"dns_location", "dns_contents", "dns_resource_type"}
      [] m = "web_server" -> {"file_location", "file_contents"}
      [] m = "email" -> {"emails"}
      [] OTHER -> {}

----------------------------------------------------------------------------
\* C1: when the initial GetDomain returns status APPROVED with the requested
\* verification method, AddDomain and ReverifyDomain are never called and the
\* run ends successfully with changed=false.
C1_Pre ==
    /\ LookupOk
    /\ domain_details.verificationStatus = "APPROVED"
    /\ CurrentMethod = params.verification_method

C1_ApprovedNoRequest ==
    C1_Pre =>
        /\ CallsOf(Mutating) = {}
        /\ pc \in {"dump", "done"}
        /\ msg = None
        /\ pc = "done" => out["changed"] = "false"

C1_Witness == C1_Pre /\ pc = "done"

\* C2: when the initial GetDomain returns status INITIAL_VERIFICATION with a
\* method other than the requested one, ReverifyDomain is called with the
\* requested method upper-cased, and a run in which no later call fails
\* reports changed=true.
C2_Pre ==
    /\ LookupOk
    /\ domain_details.verificationStatus = "INITIAL_VERIFICATION"
    /\ CurrentMethod # params.verification_method

C2_ReverifyOnMethodChange ==
    C2_Pre =>
        /\ pc # "dump" \/ self.changed
        /\ pc # "request" =>
            /\ CallsOf({"ReverifyDomain"}) # {}
            /\ CallsOf({"AddDomain"}) = {}
            /\ \A k \in CallsOf({"ReverifyDomain"}) :
                 trace[k].body.verificationMethod
                    = CASE params.verification_method = "dns" -> "DNS"
                        [] params.verification_method = "email" -> "EMAIL"
                        [] params.verification_method = "manual" -> "MANUAL"
                        [] params.verification_method = "web_server" -> "WEB_SERVER"
        /\ pc = "done" => out["changed"] = "true"

C2_Witness == C2_Pre /\ pc = "done" /\ out["changed"] = "true"

\* C3: AddDomain is called, with the domain name in the body, only for a
\* domain that does not exist at the certificate authority; for a domain that
\* exists ReverifyDomain is called and AddDomain never is, whatever the outcome
\* of the initial lookup.
C3_AddOnlyForNewDomain ==
    \A k \in CallsOf(Mutating) :
        IF trace[k].existed
        THEN trace[k].op = "ReverifyDomain"
        ELSE trace[k].op = "AddDomain" /\ trace[k].body.domainName = DomainName

\* C4: a successful run's result contains exactly the artifact fields of the
\* resulting verification method, and no others.
C4_ExactArtifactFields ==
    pc = "done" =>
        (DOMAIN out) \cap ArtifactKeys = ArtifactKeysOf(self.verification_method)

\* C5: verification_email together with a method other than email ends the
\* run in failure before any use of the API client.
C5_Pre == params.verification_email # None /\ params.verification_method # "email"

C5_RejectedBeforeAnyCall ==
    C5_Pre =>
        /\ trace = <<>>
        /\ pc \in {"main", "failed"}
        /\ out = <<>>
        /\ pc = "failed" => msg = "The verification_email field is invalid"

C5_Witness == C5_Pre /\ pc = "failed"

\* C6: a failing AddDomain, ReverifyDomain or post-request GetDomain aborts
\* the run: it is the last call made, the run is failed with the request error
\* message, no result is produced and changed is not set.
C6_RequestFailureAborts ==
    \A k \in DOMAIN trace :
        (/\ ~trace[k].ok
         /\ \/ trace[k].op \in Mutating
            \/ trace[k].op = "GetDomain" /\ RequestAt # 0 /\ k > RequestAt)
        => /\ k = Len(trace)
           /\ pc = "failed"
           /\ msg = "Failed to request domain validation from Entrust (ECS)"
           /\ out = <<>>
           /\ ~self.changed

C6_Witness ==
    /\ pc = "failed"
    /\ Len(AfterRequest) = 4
    /\ ~trace[Len(trace)].ok

\* C7: check answers 'satisfied' only for APPROVED, or for
\* INITIAL_VERIFICATION / RE_VERIFICATION with the requested method equal to
\* the current one; for DECLINED, CANCELLED, EXPIRED, EXPIRING and for a
\* failed lookup it answers 'not satisfied', the error does not abort the
\* run, and a request is issued.
C7_CheckDecision ==
    CheckDone =>
        /\ satisfied =>
            /\ LookupOk
            /\ domain_details.verificationStatus
                  \in {"APPROVED", "INITIAL_VERIFICATION", "RE_VERIFICATION"}
            /\ domain_details.verificationStatus
                  \in {"INITIAL_VERIFICATION", "RE_VERIFICATION"}
               => CurrentMethod = params.verification_method
        /\ (\/ LookupFailed
            \/ domain_details.verificationStatus
                  \in {"DECLINED", "CANCELLED", "EXPIRED", "EXPIRING"})
           => /\ ~satisfied
              /\ Len(trace) = 3 => pc = "request" /\ msg = None
              /\ pc # "request" => CallsOf(Mutating) # {}

C7_Witness ==
    /\ LookupFailed
    /\ pc = "done"

\* C8: a successful run with changed=true reports verification_method, equal
\* to the verification_method parameter.
C8_ChangedReportsRequestedMethod ==
    (pc = "done" /\ out["changed"] = "true") =>
        /\ "verification_method" \in DOMAIN out
        /\ out["verification_method"] = params.verification_method

\* the artifact sets the object holds values for
Populated ==
    (IF self.dns_location # None \/ self.dns_contents # None \/ self.dns_resource_type # None
     THEN {"dns"} ELSE {})
    \cup (IF self.file_location # None \/ self.file_contents # None
          THEN {"web_server"} ELSE {})
    \cup (IF self.emails # None THEN {"email"} ELSE {})

\* C9: once set_domain_details has run, exactly one of the three artifact
\* sets of the object is populated, the one of its current method.
C9_ExactlyOneArtifactSet ==
    self.domain_status # None => Populated = {self.verification_method}

\* C9, the case the claim singles out: once the post-request record with a
\* method other than the initially fetched one has been applied, no artifact
\* set of another method is still populated.
C9_NoStaleArtifacts ==
    (/\ self.changed
     /\ LookupOk
     /\ self.verification_method # CurrentMethod)
    => Populated \subseteq {self.verification_method}

\* C10: after a successful add/reverify the run does sleep 5, GetDomain and,
\* for dns and web_server only, an inspection loop of at most 4 iterations
\* that neither fetches nor sleeps, then always sleep 10 and GetDomain; at
\* most 3 (dns, web_server) or 2 (email, manual) GetDomain calls are made,
\* the result is taken from the last record fetched, and the run terminates.
C10_Expected ==
    IF params.verification_method \in {"dns", "web_server"}
    THEN <<"sleep", "GetDomain", "sleep", "GetDomain">>
    ELSE <<"sleep", "GetDomain">>

C10_Sequence ==
    LET after == AfterRequest
        polls == IF params.verification_method \in {"dns", "web_server"} THEN 3 ELSE 2
    IN  /\ Len(after) <= Len(C10_Expected)
        /\ \A k \in DOMAIN after :
              /\ after[k].op = C10_Expected[k]
              /\ after[k].op = "sleep" => after[k].secs = (IF k = 1 THEN 5 ELSE 10)
        /\ Cardinality(CallsOf({"GetDomain"})) <= polls
        /\ i <= 4
        /\ pc = "loop" =>
              /\ params.verification_method \in {"dns", "web_server"}
              /\ Len(after) = 2
              /\ result = last_fetched
        /\ (pc \in {"dump", "done"} /\ self.changed) =>
              /\ Len(after) = Len(C10_Expected)
              /\ self.domain_status = last_fetched.verificationStatus
              /\ last_fetched.verificationMethod # None
                 => self.verification_method = Lower(last_fetched.verificationMethod)

C11_ChangedIffOneRequest ==
    /\ Cardinality(CallsOf(Mutating)) <= 1
    /\ ~(CallsOf({"AddDomain"}) # {} /\ CallsOf({"ReverifyDomain"}) # {})
    /\ pc = "done" =>
          /\ out["changed"] = "true" <=> Cardinality(CallsOf(Mutating)) = 1
          /\ CallsOf(Mutating) = {} => out["changed"] = "false"

C11_Witness ==
    /\ pc = "done"
    /\ Cardinality(CallsOf(Mutating)) = 1
    /\ out["changed"] = "true"
====
